---- MODULE Spec2Model ----
(***************************************************************************)
(* Model of the export-modularization pass (transform/src/lib.rs).         *)
(*                                                                         *)
(* Strings are sequences of one-character strings, so that regular         *)
(* expression matching, template rendering and the collapsing of           *)
(* duplicate slashes are computed character by character.  Option<T> is a  *)
(* sequence of length 0 (None) or 1 (Some).  A panic is a result record    *)
(* with ok = FALSE and the kind of the panic in err.                       *)
(*                                                                         *)
(* Regular expressions are sequences of tokens of a small dialect of the   *)
(* regex crate: a literal character, the anchors, the postfix star, the    *)
(* wildcard (dot star), the capturing wildcard and an unclosed group.      *)
(* Templates are sequences of tokens: a literal character, one of the      *)
(* handlebars expressions below, or an unclosed expression.                *)
(***************************************************************************)
EXTENDS Naturals, Sequences, FiniteSets

VARIABLES config, packages, module, output, pc, err, passes

vars == <<config, packages, module, output, pc, err, passes>>

\* ------------------------------------------------------------ bounds

MaxSpecifiers == 2
MaxRules == 2
MaxItems == 2
MaxPasses == 2

\* ------------------------------------------------------------ helpers

None == <<>>
Some(x) == <<x>>

\* F applied to the value of e, with e evaluated once.
Bind(e, F(_)) == CHOOSE y \in {F(x) : x \in {e}} : TRUE

\* Sequences over S of length 0..n without a repeated element.
RECURSIVE DistinctSeqs(_, _)
DistinctSeqs(S, n) ==
    IF n = 0 THEN {<<>>}
    ELSE LET shorter == DistinctSeqs(S, n - 1)
         IN shorter \cup
            {Append(qx[1], qx[2]) : qx \in
                {qx \in shorter \X S : \A i \in 1..Len(qx[1]) : qx[1][i] # qx[2]}}

\* Sequences over S of length lo..hi.
SeqsBetween(S, lo, hi) == UNION {[1..n -> S] : n \in lo..hi}

\* ------------------------------------------------------------ regex

\* key.starts_with('^') and key.ends_with('$')
starts_with(key, c) == Len(key) > 0 /\ key[1] = c
ends_with(key, c) == Len(key) > 0 /\ key[Len(key)] = c

\* The auto-anchoring of a pattern that has neither anchor.
anchor_key(key) ==
    IF ~starts_with(key, "^") /\ ~ends_with(key, "$")
    THEN <<"^">> \o key \o <<"$">>
    ELSE key

\* Regex::new(re).is_ok(): an unclosed group and a repetition operator with
\* nothing before it are syntax errors.
regex_valid(re) ==
    /\ \A i \in 1..Len(re) : re[i] # "("
    /\ ~starts_with(re, "*")

\* Positions an atom can stop at when it starts at j (0-based offsets).
AtomStops(tok, s, j) ==
    CASE tok = "^" -> IF j = 0 THEN {j} ELSE {}
      [] tok = "$" -> IF j = Len(s) THEN {j} ELSE {}
      [] tok = ".*" -> j..Len(s)
      [] tok = "(.*)" -> j..Len(s)
      [] tok = "*" -> {j}
      [] OTHER -> IF j < Len(s) /\ s[j + 1] = tok THEN {j + 1} ELSE {}

\* Positions zero or more repetitions of an atom can stop at.
RECURSIVE StarStops(_, _, _)
StarStops(tok, s, j) ==
    {j} \cup UNION {StarStops(tok, s, k) : k \in {k \in AtomStops(tok, s, j) : k > j}}

\* The preferred (greedy, backtracking) match of re[i..] at offset j:
\* None, or Some([end, caps]) with the texts of the capture groups.
RECURSIVE MatchAt(_, _, _, _)
MatchAt(re, s, i, j) ==
    IF i > Len(re) THEN Some([end |-> j, caps |-> <<>>])
    ELSE LET starred == i < Len(re) /\ re[i + 1] = "*"
             nxt == IF starred THEN i + 2 ELSE i + 1
             stops == IF starred THEN StarStops(re[i], s, j)
                      ELSE AtomStops(re[i], s, j)
             Longest(cands) ==
                 IF cands = {} THEN None
                 ELSE LET km == CHOOSE km \in cands : \A o \in cands : o[1] <= km[1]
                      IN Some([end |-> km[2][1].end,
                               caps |-> IF re[i] = "(.*)"
                                        THEN <<SubSeq(s, j + 1, km[1])>> \o km[2][1].caps
                                        ELSE km[2][1].caps])
         IN Bind({km \in {<<k, MatchAt(re, s, nxt, k)>> : k \in stops} : km[2] # None},
                 Longest)

\* regex.captures(s) followed by the collection of the groups into a Vec:
\* None, or Some(groups) with groups[1] the whole (leftmost) match.
captures(re, s) ==
    LET Leftmost(cands) ==
            IF cands = {} THEN None
            ELSE LET jm == CHOOSE jm \in cands : \A o \in cands : jm[1] <= o[1]
                 IN Some(<<SubSeq(s, jm[1] + 1, jm[2][1].end)>> \o jm[2][1].caps)
    IN Bind({jm \in {<<j, MatchAt(re, s, 1, j)>> : j \in 0..Len(s)} : jm[2] # None},
            Leftmost)

\* ------------------------------------------------------------ templates

\* An indexed access into a capture-group sequence; a missing binding
\* renders as the empty string.
Group(groups, n) == IF n + 1 <= Len(groups) THEN groups[n + 1] ELSE <<>>

\* The text one template token renders to.
RenderToken(tok, ctx) ==
    CASE tok = "{{member}}" -> ctx.member
      [] tok = "{{matches.[0]}}" -> Group(ctx.matches, 0)
      [] tok = "{{matches.[1]}}" -> Group(ctx.matches, 1)
      [] tok = "{{memberMatches.[0]}}" ->
            IF ctx.memberMatches = None THEN <<>> ELSE Group(ctx.memberMatches[1], 0)
      [] tok = "{{memberMatches.[1]}}" ->
            IF ctx.memberMatches = None THEN <<>> ELSE Group(ctx.memberMatches[1], 1)
      [] OTHER -> <<tok>>

RECURSIVE RenderFrom(_, _, _)
RenderFrom(tpl, ctx, i) ==
    IF i > Len(tpl) THEN <<>>
    ELSE RenderToken(tpl[i], ctx) \o RenderFrom(tpl, ctx, i + 1)

\* A panic: the traversal (or the construction) stops with this error.
Panic(e) == [ok |-> FALSE, out |-> <<>>, err |-> e]
Return(out) == [ok |-> TRUE, out |-> out, err |-> "none"]

\* renderer.render_template(tpl, &ctx).unwrap_or_else(|e| panic!(..)): an
\* unclosed expression is a render error.
render_template(tpl, ctx) ==
    IF \E i \in 1..Len(tpl) : tpl[i] = "{{"
    THEN Panic("render error")
    ELSE Return(RenderFrom(tpl, ctx, 1))

\* DUP_SLASH_REGEX.replace_all(path, "/"): the non-overlapping matches of
\* two slashes, leftmost first, are each replaced by one slash.
RECURSIVE ReplaceDupSlashFrom(_, _)
ReplaceDupSlashFrom(path, i) ==
    IF i > Len(path) THEN <<>>
    ELSE IF i < Len(path) /\ path[i] = "/" /\ path[i + 1] = "/"
         THEN <<"/">> \o ReplaceDupSlashFrom(path, i + 2)
         ELSE <<path[i]>> \o ReplaceDupSlashFrom(path, i + 1)

replace_dup_slash(path) == ReplaceDupSlashFrom(path, 1)

\* ------------------------------------------------------------ rewrite engine

\* The render context of one rule; memberMatches only inside a member rule.
Ctx(rw, member, member_matches) ==
    [matches |-> rw.group, member |-> member, memberMatches |-> member_matches]

\* The closure passed to v.iter().any(..): the rules are tried in list
\* order from the i-th; each is anchored and compiled when it is tried, the
\* first whose pattern matches the member is rendered and ends the search.
RECURSIVE TryRules(_, _, _, _)
TryRules(rw, v, member, i) ==
    IF i > Len(v) THEN Panic("missing transform")
    ELSE LET key == anchor_key(v[i][1])
             Tried(group) ==
                 IF group # None
                 THEN render_template(v[i][2], Ctx(rw, member, group))
                 ELSE TryRules(rw, v, member, i + 1)
         IN IF ~regex_valid(key) THEN Panic("invalid regex")
            ELSE Bind(captures(key, member), Tried)

\* The same search with the rules taken from the last to the first.
RECURSIVE TryRulesBackwards(_, _, _, _)
TryRulesBackwards(rw, v, member, i) ==
    IF i < 1 THEN Panic("missing transform")
    ELSE LET key == anchor_key(v[i][1])
             Tried(group) ==
                 IF group # None
                 THEN render_template(v[i][2], Ctx(rw, member, group))
                 ELSE TryRulesBackwards(rw, v, member, i - 1)
         IN IF ~regex_valid(key) THEN Panic("invalid regex")
            ELSE Bind(captures(key, member), Tried)

member_rule_last(rw, v, member) == TryRulesBackwards(rw, v, member, Len(v))

\* Transform::Vec(v): the template of the first rule matching the member.
member_rule(rw, v, member) == TryRules(rw, v, member, 1)

\* let new_path = match &self.config.transform { .. }: the rendered path of
\* a member, before normalization.
render_path(rw, member) ==
    IF rw.config.transform.kind = "String"
    THEN render_template(rw.config.transform.s, Ctx(rw, member, None))
    ELSE member_rule(rw, rw.config.transform.v, member)

\* let name_str = match &named_spec.orig { .. }: the member is the
\* source-side name of the specifier.
member_of_exported(named_spec) ==
    IF named_spec.exported # None THEN named_spec.exported[1] ELSE named_spec.orig

member_of(named_spec) == named_spec.orig

\* old_decl.type_only || old_decl.with.is_some()
is_passthrough_type_only(old_decl) == old_decl.type_only

is_passthrough(old_decl) == old_decl.type_only \/ old_decl.with # None

\* The specifier of a rewritten statement.
new_specifier(cfg, named_spec) ==
    IF cfg.skip_default_conversion
    THEN named_spec
    ELSE [kind |-> "Namespace",
          name |-> IF named_spec.exported # None
                   THEN named_spec.exported[1]
                   ELSE named_spec.orig]

\* The arm of a specifier that is not ExportSpecifier::Named.
non_named_keep_built(cfg, old_decl, out) ==
    IF cfg.prevent_full_export
    THEN Panic("full export")
    ELSE Return(Append(out, old_decl))

non_named(cfg, old_decl, out) ==
    IF cfg.prevent_full_export
    THEN Panic("full export")
    ELSE Return(<<old_decl>>)

\* The loop of rewrite_named over the specifiers, from the i-th, with the
\* statements built so far in out.
RECURSIVE RewriteSpecifiers(_, _, _, _)
RewriteSpecifiers(rw, old_decl, i, out) ==
    IF i > Len(old_decl.specifiers) THEN Return(out)
    ELSE LET spec == old_decl.specifiers[i]
             Built(p) ==
                 IF ~p.ok THEN p
                 ELSE RewriteSpecifiers(rw, old_decl, i + 1,
                         Append(out,
                             [type |-> "ExportNamed",
                              span |-> old_decl.span,
                              specifiers |-> <<new_specifier(rw.config, spec)>>,
                              src |-> Some(replace_dup_slash(p.out)),
                              type_only |-> FALSE,
                              with |-> None]))
         IN IF spec.kind = "Named"
            THEN Bind(render_path(rw, member_of(spec)), Built)
            ELSE non_named(rw.config, old_decl, out)

rewrite_named(rw, old_decl) ==
    IF is_passthrough(old_decl) THEN Return(<<old_decl>>)
    ELSE RewriteSpecifiers(rw, old_decl, 1, <<>>)

\* The member an export-all statement is rendered with.
StarMemberEmpty == <<>>

StarMember == <<"*">>

rewrite_all(rw, old_decl) ==
    IF is_passthrough(old_decl) THEN Return(<<old_decl>>)
    ELSE LET Built(p) ==
                 IF ~p.ok THEN p
                 ELSE Return(<<[type |-> "ExportAll",
                                span |-> old_decl.span,
                                src |-> replace_dup_slash(p.out),
                                type_only |-> FALSE,
                                with |-> None]>>)
         IN Bind(render_path(rw, StarMember), Built)

\* ------------------------------------------------------------ driver

\* The first entry of the table, in table order, whose pattern matches the
\* source path, as a Rewriter; None without a source path or a match.
RECURSIVE LookupFrom(_, _, _)
LookupFrom(pkgs, name, i) ==
    IF i > Len(pkgs) THEN None
    ELSE LET Tried(group) ==
                 IF group # None
                 THEN Some([key |-> name, config |-> pkgs[i][2], group |-> group[1]])
                 ELSE LookupFrom(pkgs, name, i + 1)
         IN Bind(captures(pkgs[i][1], name), Tried)

should_rewrite_first(pkgs, name) ==
    IF name = None \/ pkgs = <<>> THEN None
    ELSE Some([key |-> name[1], config |-> pkgs[1][2], group |-> <<name[1]>>])

should_rewrite(pkgs, name) ==
    IF name = None THEN None ELSE LookupFrom(pkgs, name[1], 1)

\* What one top-level item is replaced by.
fold_item(pkgs, item) ==
    LET Named(rw) == IF rw # None THEN rewrite_named(rw[1], item) ELSE Return(<<item>>)
        All(rw) == IF rw # None THEN rewrite_all(rw[1], item) ELSE Return(<<item>>)
    IN IF item.type = "ExportNamed"
       THEN Bind(should_rewrite(pkgs, item.src), Named)
       ELSE IF item.type = "ExportAll"
       THEN Bind(should_rewrite(pkgs, Some(item.src)), All)
       ELSE Return(<<item>>)

\* The loop of fold_module over module.body, from the i-th item.
RECURSIVE FoldFrom(_, _, _, _)
FoldFrom(pkgs, body, i, new_items) ==
    IF i > Len(body) THEN Return(new_items)
    ELSE LET Extend(r) ==
                 IF ~r.ok THEN r ELSE FoldFrom(pkgs, body, i + 1, new_items \o r.out)
         IN Bind(fold_item(pkgs, body[i]), Extend)

RECURSIVE FoldFromPrepend(_, _, _, _)
FoldFromPrepend(pkgs, body, i, new_items) ==
    IF i > Len(body) THEN Return(new_items)
    ELSE LET Extend(r) ==
                 IF ~r.ok THEN r
                 ELSE FoldFromPrepend(pkgs, body, i + 1, r.out \o new_items)
         IN Bind(fold_item(pkgs, body[i]), Extend)

fold_module_prepend(pkgs, body) == FoldFromPrepend(pkgs, body, 1, <<>>)

fold_module(pkgs, body) == FoldFrom(pkgs, body, 1, <<>>)

\* The loop of modularize_exports over config.packages, which the HashMap
\* yields in the order `order`: each key is anchored and compiled.
RECURSIVE BuildFrom(_, _, _, _)
BuildFrom(cfg, order, i, pkgs) ==
    IF i > Len(order) THEN Return(pkgs)
    ELSE LET k == anchor_key(order[i])
         IN IF ~regex_valid(k) THEN Panic("invalid regex")
            ELSE BuildFrom(cfg, order, i + 1, Append(pkgs, <<k, cfg[order[i]]>>))

RECURSIVE BuildFromLenient(_, _, _, _)
BuildFromLenient(cfg, order, i, pkgs) ==
    IF i > Len(order) THEN Return(pkgs)
    ELSE LET k == anchor_key(order[i])
         IN IF ~regex_valid(k) THEN BuildFromLenient(cfg, order, i + 1, pkgs)
            ELSE BuildFromLenient(cfg, order, i + 1, Append(pkgs, <<k, cfg[order[i]]>>))

modularize_exports_lenient(cfg, order) == BuildFromLenient(cfg, order, 1, <<>>)

modularize_exports(cfg, order) == BuildFrom(cfg, order, 1, <<>>)

\* The orders a HashMap with these keys can be iterated in.
Orders(cfg) ==
    {o \in [1..Cardinality(DOMAIN cfg) -> DOMAIN cfg] :
        \A i, j \in DOMAIN o : i # j => o[i] # o[j]}

\* ------------------------------------------------------------ inputs

\* Specifiers: a named one with an alias, a named one without, and the two
\* forms that are not named.
Specifiers ==
    { [kind |-> "Named", orig |-> <<"F">>, exported |-> Some(<<"B">>)],
      [kind |-> "Named", orig |-> <<"G">>, exported |-> None],
      [kind |-> "Namespace", name |-> <<"N">>],
      [kind |-> "Default", exported |-> Some(<<"D">>)] }

SpecifierLists == DistinctSeqs(Specifiers, MaxSpecifiers)

\* Source, typeOnly flag and attributes clause of the named exports.
NamedShapes ==
    { [src |-> None, type_only |-> FALSE, with |-> None],
      [src |-> Some(<<"q">>), type_only |-> FALSE, with |-> None],
      [src |-> Some(<<"p">>), type_only |-> FALSE, with |-> None],
      [src |-> Some(<<"p">>), type_only |-> TRUE, with |-> None],
      [src |-> Some(<<"p">>), type_only |-> FALSE, with |-> Some("json")] }

AllShapes ==
    { [src |-> <<"q">>, type_only |-> FALSE, with |-> None],
      [src |-> <<"p">>, type_only |-> FALSE, with |-> None],
      [src |-> <<"p">>, type_only |-> TRUE, with |-> None],
      [src |-> <<"p">>, type_only |-> FALSE, with |-> Some("json")] }

NamedExports(span) ==
    { [type |-> "ExportNamed", span |-> span, specifiers |-> l, src |-> sh.src,
       type_only |-> sh.type_only, with |-> sh.with] :
        l \in SpecifierLists, sh \in NamedShapes }

ExportAlls(span) ==
    { [type |-> "ExportAll", span |-> span, src |-> sh.src,
       type_only |-> sh.type_only, with |-> sh.with] : sh \in AllShapes }

\* Any other top-level statement.
Others(span) == { [type |-> "Other", span |-> span] }

Items(span) == NamedExports(span) \cup ExportAlls(span) \cup Others(span)

\* The items of the modules with more than one item.
SiblingItems(span) ==
    { [type |-> "Other", span |-> span],
      [type |-> "ExportNamed", span |-> span,
       specifiers |-> <<[kind |-> "Named", orig |-> <<"F">>, exported |-> Some(<<"B">>)],
                        [kind |-> "Named", orig |-> <<"G">>, exported |-> None]>>,
       src |-> Some(<<"p">>), type_only |-> FALSE, with |-> None],
      [type |-> "ExportAll", span |-> span, src |-> <<"q">>,
       type_only |-> FALSE, with |-> None] }

Modules ==
    {<<>>} \cup {<<it>> : it \in Items(1)}
    \cup {m \in SeqsBetween(UNION {SiblingItems(i) : i \in 1..MaxItems}, 2, MaxItems) :
            \A i \in DOMAIN m : m[i].span = i}

TplMember == <<"{{matches.[0]}}", "/", "/", "{{member}}">>
TplGroup == <<"p", "/", "/", "/", "{{memberMatches.[1]}}">>
TplStar == <<"q", "/", "{{memberMatches.[0]}}", "{{member}}">>
TplBad == <<"p", "/", "{{">>

Templates == {TplMember, TplGroup, TplBad}

\* Member rules: an exact name, a pattern with a group, the conventional
\* catch-all and an invalid pattern.
MemberRules ==
    { <<<<"F">>, TplMember>>, <<<<"(.*)">>, TplGroup>>, <<<<"*">>, TplStar>>,
      <<<<"(">>, TplMember>> }

Transforms ==
    {[kind |-> "String", s |-> t] : t \in Templates}
    \cup {[kind |-> "Vec", v |-> v] : v \in DistinctSeqs(MemberRules, MaxRules) \ {<<>>}}

PackageConfigs ==
    { [transform |-> t, prevent_full_export |-> pfe, skip_default_conversion |-> sdc] :
        t \in Transforms, pfe \in BOOLEAN, sdc \in BOOLEAN }

\* Package patterns: an exact name, a prefix, a name with a group, an
\* invalid one.
PackagePatterns == { <<"p">>, <<"^", "p">>, <<"p", "(.*)">>, <<"(">> }

\* The rules of the configurations with two packages.
OverlapConfigs ==
    { [transform |-> [kind |-> "String", s |-> TplMember],
       prevent_full_export |-> FALSE, skip_default_conversion |-> FALSE],
      [transform |-> [kind |-> "String", s |-> TplGroup],
       prevent_full_export |-> FALSE, skip_default_conversion |-> TRUE],
      [transform |-> [kind |-> "Vec", v |-> <<<<<<"F">>, TplMember>>>>],
       prevent_full_export |-> TRUE, skip_default_conversion |-> FALSE] }

Configs ==
    {<<>>}
    \cup UNION {[{k} -> PackageConfigs] : k \in PackagePatterns}
    \cup [{<<"p">>, <<"^", "p">>} -> OverlapConfigs]

\* ------------------------------------------------------------ state machine

Init ==
    /\ config \in Configs
    /\ module \in Modules
    /\ packages = <<>>
    /\ output = <<>>
    /\ pc = "init"
    /\ err = "none"
    /\ passes = 0

\* modularize_exports(config): the table is built in the order the HashMap
\* yields its entries; an invalid package pattern panics.
ModularizeExports ==
    /\ pc = "init"
    /\ \E order \in Orders(config) :
         \E r \in {modularize_exports(config, order)} :
            \/ /\ r.ok
               /\ packages' = r.out
               /\ pc' = "ready"
               /\ err' = err
            \/ /\ ~r.ok
               /\ packages' = packages
               /\ pc' = "aborted"
               /\ err' = r.err
    /\ UNCHANGED <<config, module, output, passes>>

\* folder.fold_module(module): one traversal of the module.
FoldModule ==
    /\ pc = "ready"
    /\ \E r \in {fold_module(packages, module)} :
          \/ /\ r.ok
             /\ output' = r.out
             /\ pc' = "folded"
             /\ passes' = passes + 1
             /\ err' = err
          \/ /\ ~r.ok
             /\ output' = output
             /\ pc' = "panicked"
             /\ passes' = passes
             /\ err' = r.err
    /\ UNCHANGED <<config, packages, module>>

\* The module the pass produced, as the host reads it back: the statements
\* in order, with the spans of their new places.
Reparsed(body) == [i \in DOMAIN body |-> [body[i] EXCEPT !.span = i]]

\* The host runs the pass again, on the module the pass produced.
Resubmit ==
    /\ pc = "folded"
    /\ passes < MaxPasses
    /\ module' = Reparsed(output)
    /\ output' = <<>>
    /\ pc' = "ready"
    /\ UNCHANGED <<config, packages, err, passes>>

Next == ModularizeExports \/ FoldModule \/ Resubmit

Spec == Init /\ [][Next]_vars

\* ------------------------------------------------------------ properties

IsExport(item) == item.type \in {"ExportNamed", "ExportAll"}

\* The literal source path of an export, if it has one.
SrcOf(item) == IF item.type = "ExportAll" THEN Some(item.src) ELSE item.src

IsPassThrough(item) == item.type_only \/ item.with # None

\* The entries of the table whose pattern matches the source path.
MatchingEntries(item) ==
    IF SrcOf(item) = None THEN {}
    ELSE {k \in DOMAIN packages : captures(packages[k][1], SrcOf(item)[1]) # None}

Matched(item) == IsExport(item) /\ MatchingEntries(item) # {}

\* The package rule of a matched export: that of the first matching entry.
RuleOf(item) ==
    packages[CHOOSE k \in MatchingEntries(item) :
                \A j \in MatchingEntries(item) : k <= j][2]

\* The statements of the output that stem from the i-th input statement.
IsFrom(i, st) == st.span = module[i].span
Derived(i) == SelectSeq(output, LAMBDA st : IsFrom(i, st))

\* The traversal of a module of one statement rests on that statement alone.
Alone(i) == Len(module) = 1

\* C1: an export statement (named or export-all) that is typeOnly or carries
\* an attributes clause is output as exactly that one statement, unchanged,
\* whatever the configuration: the traversal of it never fails.
C1_PassThroughUnchanged ==
    \A i \in DOMAIN module :
        IsExport(module[i]) /\ IsPassThrough(module[i]) =>
            /\ pc = "folded" => Derived(i) = <<module[i]>>
            /\ Alone(i) => pc # "panicked"

\* C1: a matched statement with an attributes clause has been traversed
\* under a rule whose template cannot be rendered.
C1_Witness ==
    /\ pc = "folded"
    /\ \E i \in DOMAIN module :
        /\ Matched(module[i])
        /\ module[i].with # None
        /\ RuleOf(module[i]).transform = [kind |-> "String", s |-> TplBad]
        /\ RuleOf(module[i]).prevent_full_export

\* The Rewriter of a matched export: the rule of the first matching entry
\* and the groups its pattern captures in the source path.
RewriterOf(item) ==
    LET k == CHOOSE k \in MatchingEntries(item) :
                \A j \in MatchingEntries(item) : k <= j
    IN [key |-> SrcOf(item)[1],
        config |-> packages[k][2],
        group |-> captures(packages[k][1], SrcOf(item)[1])[1]]

\* A matched named export that is rewritten and has only plain named
\* specifiers.
AllNamed(item) ==
    /\ item.type = "ExportNamed"
    /\ Matched(item)
    /\ ~IsPassThrough(item)
    /\ \A k \in DOMAIN item.specifiers : item.specifiers[k].kind = "Named"

\* The path of every specifier of the statement can be resolved: a rule
\* matches its member and the template of that rule can be rendered.
AllResolve(item) ==
    \A k \in DOMAIN item.specifiers :
        item.specifiers[k].kind = "Named" =>
            render_path(RewriterOf(item), item.specifiers[k].orig).ok

\* The specifier the rewritten statement of a named specifier carries.
ExpectedSpecifier(rule, spec) ==
    IF rule.skip_default_conversion THEN spec
    ELSE [kind |-> "Namespace",
          name |-> IF spec.exported = None THEN spec.orig ELSE spec.exported[1]]

\* One statement per specifier, in specifier order, each with one specifier
\* and the normalized path rendered with the source-side name as member.
OnePerSpecifier(i) ==
    LET item == module[i]
        d == Derived(i)
    IN /\ Len(d) = Len(item.specifiers)
       /\ \A k \in DOMAIN d :
            /\ d[k].type = "ExportNamed"
            /\ ~d[k].type_only
            /\ d[k].with = None
            /\ d[k].src = Some(replace_dup_slash(
                    render_path(RewriterOf(item), item.specifiers[k].orig).out))
            /\ d[k].specifiers =
                    <<ExpectedSpecifier(RuleOf(item), item.specifiers[k])>>

\* C2: a matched named export that is not typeOnly, has no attributes clause
\* and has n plain named specifiers is rewritten into exactly n named
\* exports, in specifier order; the i-th has one specifier, the namespace
\* specifier named by the alias (or the source name) or, with
\* skipDefaultConversion, the unchanged named specifier, and its source is
\* the normalized path rendered with the i-th source-side name as member.
\* rewrite_named returns exactly when the path of every specifier can be
\* resolved; otherwise the traversal fails.
C2_OnePerSpecifier ==
    \A i \in DOMAIN module :
        AllNamed(module[i]) =>
            /\ pc = "folded" => OnePerSpecifier(i) /\ AllResolve(module[i])
            /\ Alone(i) /\ AllResolve(module[i]) => pc # "panicked"

\* C2: a statement with two named specifiers, one with an alias, has been
\* rewritten into two statements under a member-rule list.
C2_Witness ==
    /\ pc = "folded"
    /\ \E i \in DOMAIN module :
        /\ AllNamed(module[i])
        /\ Len(module[i].specifiers) = 2
        /\ module[i].specifiers[1].exported # None
        /\ RuleOf(module[i]).transform.kind = "Vec"
        /\ Len(Derived(i)) = 2

\* The templates of the rule can be rendered and its member patterns are
\* valid regular expressions.
WellFormed(rule) ==
    IF rule.transform.kind = "String"
    THEN render_template(rule.transform.s, [matches |-> <<>>, member |-> <<>>,
                                            memberMatches |-> None]).ok
    ELSE \A k \in DOMAIN rule.transform.v :
            /\ regex_valid(anchor_key(rule.transform.v[k][1]))
            /\ render_template(rule.transform.v[k][2],
                    [matches |-> <<>>, member |-> <<>>, memberMatches |-> None]).ok

\* A matched named export that is rewritten and has a specifier that is not
\* a plain named one.
HasNonNamed(item) ==
    /\ item.type = "ExportNamed"
    /\ Matched(item)
    /\ ~IsPassThrough(item)
    /\ \E k \in DOMAIN item.specifiers : item.specifiers[k].kind # "Named"

FirstNonNamed(item) ==
    CHOOSE k \in DOMAIN item.specifiers :
        /\ item.specifiers[k].kind # "Named"
        /\ \A j \in 1..(k - 1) : item.specifiers[j].kind = "Named"

\* The paths of the named specifiers before the first one that is not named
\* can be resolved.
EarlierResolve(item) ==
    \A k \in 1..(FirstNonNamed(item) - 1) :
        render_path(RewriterOf(item), item.specifiers[k].orig).ok

\* C3 as stated (here for the rules whose templates and member patterns are
\* well formed): wherever the specifier that is not named stands, the
\* traversal fails if preventFullExport is set and otherwise the result is
\* the original statement alone.
C3_Original ==
    \A i \in DOMAIN module :
        HasNonNamed(module[i]) /\ WellFormed(RuleOf(module[i])) =>
            IF RuleOf(module[i]).prevent_full_export
            THEN pc # "folded"
            ELSE /\ pc = "folded" => Derived(i) = <<module[i]>>
                 /\ Alone(i) => pc # "panicked"

\* C3 as amended: the traversal fails if preventFullExport is set; if it is
\* not set and the path of every named specifier before the first one that is
\* not named can be resolved, the result is the original statement alone,
\* with none of the statements built for the earlier specifiers; a named
\* specifier before it whose path cannot be resolved fails the traversal,
\* whatever preventFullExport is.
C3_NonNamedAllOrNothing ==
    \A i \in DOMAIN module :
        HasNonNamed(module[i]) =>
            IF RuleOf(module[i]).prevent_full_export
            THEN pc # "folded"
            ELSE /\ pc = "folded" => Derived(i) = <<module[i]>>
                 /\ Alone(i) /\ EarlierResolve(module[i]) => pc # "panicked"
                 /\ Alone(i) /\ ~EarlierResolve(module[i]) => pc # "folded"

\* C3: a statement whose second specifier is the first that is not named has
\* been traversed without preventFullExport, its first specifier resolved.
C3_Witness ==
    /\ pc = "folded"
    /\ \E i \in DOMAIN module :
        /\ HasNonNamed(module[i])
        /\ FirstNonNamed(module[i]) = 2
        /\ ~RuleOf(module[i]).prevent_full_export
        /\ Derived(i) = <<module[i]>>

\* A matched export-all that is rewritten.
RewrittenAll(item) ==
    /\ item.type = "ExportAll"
    /\ Matched(item)
    /\ ~IsPassThrough(item)

\* The path of an export-all can be resolved: the template (of the first
\* member rule matching the member "*") can be rendered.
StarResolves(item) == render_path(RewriterOf(item), <<"*">>).ok

\* One export-all with the normalized path rendered with member "*".
OneExportAll(i) ==
    Derived(i) =
        <<[type |-> "ExportAll",
           span |-> module[i].span,
           src |-> replace_dup_slash(render_path(RewriterOf(module[i]), <<"*">>).out),
           type_only |-> FALSE,
           with |-> None]>>

\* The Rewriter of a matched export with preventFullExport set to b.
WithPreventFullExport(rw, b) ==
    [rw EXCEPT !.config = [rw.config EXCEPT !.prevent_full_export = b]]

\* What the traversal made of the statement is what the export-all rewrite
\* makes of it with preventFullExport set and with preventFullExport unset.
SameForBothSettings(i) ==
    \A b \in BOOLEAN :
        \A r \in {rewrite_all(WithPreventFullExport(RewriterOf(module[i]), b), module[i])} :
            /\ pc = "folded" => r.ok /\ r.out = Derived(i)
            /\ Alone(i) /\ pc = "panicked" => ~r.ok /\ r.err = err

NoDupSlash(path) ==
    \A k \in 1..(Len(path) - 1) : ~(path[k] = "/" /\ path[k + 1] = "/")

\* The output statements the traversal wrote: the exports that are not a
\* statement of the input.
Written(st) ==
    /\ IsExport(st)
    /\ \A i \in DOMAIN module : module[i] # st

\* C5: the source path written into an output statement has every run of
\* slashes of the rendered path collapsed to one slash: it holds no two
\* adjacent slashes, and normalizing it again changes nothing.
C5_RunsCollapsed ==
    pc = "folded" =>
        \A j \in DOMAIN output :
            Written(output[j]) =>
                /\ NoDupSlash(SrcOf(output[j])[1])
                /\ replace_dup_slash(SrcOf(output[j])[1]) = SrcOf(output[j])[1]

\* The module is the output of an earlier pass.
IsResubmitted == passes >= 1 /\ pc \in {"ready", "folded", "panicked"}

\* The pass on the module succeeded and returned it unchanged.
NoOp == pc = "folded" /\ passes >= 2 => Reparsed(output) = module

\* No export of the module that is subject to rewriting has a source path
\* that a package pattern matches.
NothingMatches ==
    \A i \in DOMAIN module : ~(Matched(module[i]) /\ ~IsPassThrough(module[i]))

\* C6 as stated: for every configuration and every module on which the pass
\* succeeds, the pass on its own output succeeds and returns that output
\* unchanged.
C6_Original ==
    IsResubmitted => pc # "panicked" /\ NoOp

\* C6 as amended: when no export subject to rewriting in the output of the
\* pass has a source path that a configured package pattern matches, the pass
\* on that output succeeds and returns it unchanged.
C6_FixedPoint ==
    IsResubmitted /\ NothingMatches => pc # "panicked" /\ NoOp

\* C6: the second pass has run on a module that holds a rewritten path and
\* in which nothing matches the configured pattern.
C6_Witness ==
    /\ passes = 2
    /\ pc = "folded"
    /\ packages # <<>>
    /\ NothingMatches
    /\ \E i \in DOMAIN module :
        /\ IsExport(module[i])
        /\ SrcOf(module[i]) = Some(<<"p", "/", "F">>)

\* A matched named export that is rewritten under an ordered member-rule
\* list and whose first specifier is a plain named one.
UnderList(item) ==
    /\ item.type = "ExportNamed"
    /\ Matched(item)
    /\ ~IsPassThrough(item)
    /\ RuleOf(item).transform.kind = "Vec"
    /\ Len(item.specifiers) >= 1
    /\ item.specifiers[1].kind = "Named"

\* The k-th pattern of the list is a valid regular expression / matches the
\* member.
ValidAt(v, k) == regex_valid(anchor_key(v[k][1]))
MatchesAt(v, k, member) ==
    ValidAt(v, k) /\ captures(anchor_key(v[k][1]), member) # None

\* The place of the first pattern in list order that matches the member;
\* 0 when no pattern matches.
FirstMatch(v, member) ==
    IF \E k \in DOMAIN v : MatchesAt(v, k, member)
    THEN CHOOSE k \in DOMAIN v :
            /\ MatchesAt(v, k, member)
            /\ \A j \in 1..(k - 1) : ~MatchesAt(v, j, member)
    ELSE 0

\* The patterns tried for the member, up to the first match, are valid.
TriedValid(v, member) ==
    \A k \in DOMAIN v :
        (FirstMatch(v, member) = 0 \/ k <= FirstMatch(v, member)) => ValidAt(v, k)

\* The template paired with the k-th pattern, rendered for the member.
RenderedAt(rw, v, k, member) ==
    render_template(v[k][2], Ctx(rw, member, captures(anchor_key(v[k][1]), member)))

\* The statement is rewritten with the template of the first matching
\* pattern for its first specifier.
FirstMatchUsed(i) ==
    LET item == module[i]
        v == RuleOf(item).transform.v
        member == item.specifiers[1].orig
        r == RenderedAt(RewriterOf(item), v, FirstMatch(v, member), member)
    IN /\ pc = "folded" /\ AllNamed(item) =>
            /\ r.ok
            /\ Derived(i)[1].src = Some(replace_dup_slash(r.out))
       /\ Alone(i) /\ Len(item.specifiers) = 1 /\ r.ok => pc # "panicked"

\* The traversal fails with this error, and no statement is emitted.
FailsWith(i, e) ==
    /\ pc # "folded"
    /\ Alone(i) /\ pc = "panicked" => err = e

\* C7 as stated: under an ordered member-rule list the template of the first
\* pattern in list order that matches the member is used, whatever the later
\* patterns are; when no pattern matches, the traversal fails with the
\* missing-rule error and emits nothing.
C7_Original ==
    \A i \in DOMAIN module :
        UnderList(module[i]) =>
            LET v == RuleOf(module[i]).transform.v
                member == module[i].specifiers[1].orig
            IN IF FirstMatch(v, member) # 0
               THEN FirstMatchUsed(i)
               ELSE FailsWith(i, "missing transform")

\* C7 as amended: the patterns are compiled one by one as they are tried.
\* When those tried up to the first match are valid, the template of the
\* first matching pattern is used, whatever the later patterns are; when
\* all are valid and none matches, the traversal fails with the missing-rule
\* error; when an invalid pattern is tried before any match, the traversal
\* fails with the invalid-pattern error.
C7_FirstMatchWins ==
    \A i \in DOMAIN module :
        UnderList(module[i]) =>
            LET v == RuleOf(module[i]).transform.v
                member == module[i].specifiers[1].orig
            IN IF ~TriedValid(v, member)
               THEN FailsWith(i, "invalid regex")
               ELSE IF FirstMatch(v, member) # 0
               THEN FirstMatchUsed(i)
               ELSE FailsWith(i, "missing transform")

\* C7: a statement has been rewritten under a list of which both patterns
\* match the member.
C7_Witness ==
    /\ pc = "folded"
    /\ \E i \in DOMAIN module :
        /\ UnderList(module[i])
        /\ AllNamed(module[i])
        /\ LET v == RuleOf(module[i]).transform.v
               member == module[i].specifiers[1].orig
           IN /\ Len(v) = 2
              /\ MatchesAt(v, 1, member)
              /\ MatchesAt(v, 2, member)
              /\ v[1][2] # v[2][2]

\* Some package pattern of the configuration is not a valid regular
\* expression.
BadPackagePattern == \E k \in DOMAIN config : ~regex_valid(anchor_key(k))

\* Some member pattern of the configuration is not a valid regular
\* expression.
BadMemberPattern ==
    \E k \in DOMAIN config :
        /\ config[k].transform.kind = "Vec"
        /\ \E j \in DOMAIN config[k].transform.v : ~ValidAt(config[k].transform.v, j)

\* Construction failed, before any module was processed.
NeverStarted == pc \in {"init", "aborted"} /\ passes = 0 /\ output = <<>>

\* C8 as stated: when a package pattern or a member pattern of the
\* configuration is not a valid regular expression, construction fails and
\* no traversal ever starts.
C8_Original ==
    BadPackagePattern \/ BadMemberPattern => NeverStarted

\* C8 as amended: construction fails, with the invalid-pattern error and
\* before any module is processed, exactly when a package pattern is not a
\* valid regular expression; a member pattern is not looked at by the
\* construction.
C8_PackagePatternsChecked ==
    /\ BadPackagePattern => NeverStarted
    /\ pc = "aborted" => BadPackagePattern /\ err = "invalid regex"
    /\ ~BadPackagePattern /\ pc # "init" => Len(packages) = Cardinality(DOMAIN config)

\* C8: the construction has failed on an invalid package pattern.
C8_Witness ==
    /\ pc = "aborted"
    /\ BadPackagePattern
    /\ module # <<>>

\* A statement the driver does not hand to the rewrite: not an export, a
\* named export without a source, or an export no package pattern matches.
Untouched(item) == ~IsExport(item) \/ SrcOf(item) = None \/ ~Matched(item)

\* The place in the input of the statement an output statement stems from.
Origin(st) == CHOOSE i \in DOMAIN module : IsFrom(i, st)

\* C9: every statement that is not an export, every named export without a
\* source and every export whose source no package pattern matches is in the
\* output identical to the input, and never makes the traversal fail; every
\* output statement stems from an input statement, and the statements that
\* stem from an earlier input statement all precede those of a later one.
C9_UntouchedInPlace ==
    /\ \A i \in DOMAIN module :
            Untouched(module[i]) =>
                /\ pc = "folded" => Derived(i) = <<module[i]>>
                /\ Alone(i) => pc # "panicked"
    /\ pc = "folded" =>
        /\ \A j \in DOMAIN output : \E i \in DOMAIN module : IsFrom(i, output[j])
        /\ \A a \in DOMAIN output : \A b \in DOMAIN output :
              a < b => Origin(output[a]) <= Origin(output[b])

\* C9: a statement rewritten into two is followed in the output by the
\* untouched statement that followed it in the input.
C9_Witness ==
    /\ pc = "folded"
    /\ Len(module) = 2
    /\ Len(output) = 3
    /\ ~Untouched(module[1])
    /\ Untouched(module[2])
    /\ output[3] = module[2]

\* C10: the result does not depend on the order in which the entries of the
\* configuration mapping are enumerated: the table built from any
\* enumeration order gives, for the module, the output (or the failure) the
\* table in use gives, also when more than one package pattern matches a
\* source path.
C10_OrderIndependent ==
    pc = "ready" /\ passes = 0 =>
        \A order \in Orders(config) :
            fold_module(modularize_exports(config, order).out, module)
                = fold_module(packages, module)

\* C11: a matched statement is never replaced by zero statements: when the
\* traversal succeeds, every named export and every export-all whose source
\* a package pattern matches, a named export with an empty specifier list
\* included, has at least one statement in the output that stems from it.
C11_NeverZero ==
    pc = "folded" =>
        \A i \in DOMAIN module :
            Matched(module[i]) => Len(Derived(i)) >= 1

====
